---- MODULE Spec2Model ----
(***************************************************************************)
(* Model of the contact agenda: the Index page (session effect, list       *)
(* load, save, delete, search filter), the ContactDialog form, the         *)
(* contacts table behind the supabase client, and the city migration.      *)
(*                                                                         *)
(* Text values are sequences of one-character strings, so that             *)
(* toLowerCase() and includes() are computed; "" is <<>>.  An optional     *)
(* value (a column that may be NULL, a property that may be undefined) is  *)
(* None or Some(text).  The profile lookup touches no state a property     *)
(* below reads and is left out.                                            *)
(***************************************************************************)
EXTENDS Integers, Sequences, FiniteSets, TLC

\* ------------------------------------------------------------- bounds

\* Requests the page issues to the store in one behaviour of Spec.
MaxReqs == 3

\* Requests the page issues in one behaviour of SpecForm, where the user types
\* into every field of the dialog.
MaxFormReqs == 2

\* Records the dialog emits in one behaviour of SpecDialog.
MaxDialogReqs == 1

\* Requests the page issues in one behaviour of SpecRace.
MaxRaceReqs == 4

\* Requests the page issues in one behaviour of SpecMigration.
MaxMigrationReqs == 3

\* Longest search term drawn for the filter specification.
MaxTermLen == 2

\* ------------------------------------------------------------- values

Users == {"u1", "u2"}
NoSession == "none"

None == <<>>
Some(v) == <<v>>

\* The migration's literal default.
Burgos == <<"B", "u">>

\* What the user types in the dialog (Spec).
NameTexts == {<<>>, <<"a">>}
OptTexts == {<<>>, <<"x">>}
SearchTerms == {<<>>, <<"a">>}

TextsFor(f) == IF f = "name" THEN NameTexts ELSE OptTexts

Columns == {"name", "email", "phone", "address", "notes"}
OptColumns == {"email", "phone", "address", "notes"}

EmptyForm == [name |-> <<>>, email |-> <<>>, phone |-> <<>>, address |-> <<>>, notes |-> <<>>]

\* A finished request: nothing of it is read again but whether it failed.
Done(ok) == [kind |-> "done", ok |-> ok]

\* ------------------------------------------------------------- state

VARIABLES
    store,          \* the contacts table: a set of rows
    nextId,         \* the store's id / created_at source
    migration,      \* 0 until the city migration ran, then nextId at that time
    session,        \* Index: session user, or NoSession
    contacts,       \* Index: the list state
    loading,        \* Index: loading flag (the page renders only when FALSE)
    searchTerm,     \* Index: search box
    dialogOpen,     \* Index: dialogOpen
    editingContact, \* Index: None or Some(contact)
    form,           \* ContactDialog: the five text fields
    opener,         \* which control opened the dialog (history)
    toast,          \* last notification shown
    gone,           \* ids whose delete succeeded and whose reload completed (history)
    reqs            \* requests issued, in issue order

vars == <<store, nextId, migration, session, contacts, loading, searchTerm,
          dialogOpen, editingContact, form, opener, toast, gone, reqs>>

\* ------------------------------------------------------------- text

\* String.prototype.toLowerCase, on the letters the model draws.
UpperToLower == [A |-> "a", B |-> "b", X |-> "x"]

ToLowerChar(c) == IF c \in DOMAIN UpperToLower THEN UpperToLower[c] ELSE c

toLowerCase(s) == [i \in 1..Len(s) |-> ToLowerChar(s[i])]

\* String.prototype.includes
includes(s, t) == \E i \in 0..(Len(s) - Len(t)) : SubSeq(s, i + 1, i + Len(t)) = t

\* x || ""  (null, undefined and "" all give "")
OrEmpty(o) == IF o = None \/ o[1] = <<>> THEN <<>> ELSE o[1]

\* Variant: the text is passed through, "" included.
OrUndefined_Keep(s) == Some(s)

\* x || undefined
OrUndefined(s) == IF s = <<>> THEN None ELSE Some(s)

\* ------------------------------------------------------------- Index: filter

\* Variant: the phone is case-folded like the name and the email.
matches_PhoneFolded(contact, term) ==
    \/ includes(toLowerCase(contact.name), toLowerCase(term))
    \/ (contact.email # None /\ includes(toLowerCase(contact.email[1]), toLowerCase(term)))
    \/ (contact.phone # None /\ includes(toLowerCase(contact.phone[1]), toLowerCase(term)))

\* The predicate of contacts.filter(...): optional chaining on email and phone
\* yields undefined (falsy) when the field is null.
matches(contact, term) ==
    \/ includes(toLowerCase(contact.name), toLowerCase(term))
    \/ (contact.email # None /\ includes(toLowerCase(contact.email[1]), toLowerCase(term)))
    \/ (contact.phone # None /\ includes(contact.phone[1], term))

filterContacts(list, term) == SelectSeq(list, LAMBDA c : matches(c, term))

filteredContacts == filterContacts(contacts, searchTerm)

\* The page body is rendered only with a session and loading = false.
UIVisible == session # NoSession /\ ~loading

\* ------------------------------------------------------------- ContactDialog

\* The seeding effect, run when editingContact or open changes and on mount.
SeedForm(ec) ==
    IF ec # None
    THEN [name |-> ec[1].name,
          email |-> OrEmpty(ec[1].email),
          phone |-> OrEmpty(ec[1].phone),
          address |-> OrEmpty(ec[1].address),
          notes |-> OrEmpty(ec[1].notes)]
    ELSE EmptyForm

\* The record handleSubmit passes to onSave.
EmittedRecord(ec, f) ==
    [id |-> IF ec # None /\ ec[1].id # 0 THEN Some(ec[1].id) ELSE None,
     name |-> f.name,
     email |-> OrUndefined(f.email),
     phone |-> OrUndefined(f.phone),
     address |-> OrUndefined(f.address),
     notes |-> OrUndefined(f.notes)]

\* ------------------------------------------------------------- request bodies

\* JSON.stringify of the object handed to insert()/update(): a property whose
\* value is undefined is not sent.
Serialize(obj) == [k \in {k \in DOMAIN obj : obj[k] # None} |-> obj[k][1]]

\* handleSaveContact, the object given to update()
UpdateBody(contact) ==
    Serialize([name |-> Some(contact.name),
               email |-> contact.email,
               phone |-> contact.phone,
               notes |-> contact.notes])

\* handleSaveContact, the object given to insert()
InsertBody(contact, uid) ==
    Serialize([user_id |-> Some(uid),
               name |-> Some(contact.name),
               email |-> contact.email,
               phone |-> contact.phone,
               notes |-> contact.notes])

NoRecord == [id |-> None, name |-> <<>>, email |-> None, phone |-> None,
             address |-> None, notes |-> None]

NoBody == [name |-> <<>>]

SelectReq(uid, afterDelete) ==
    [kind |-> "select", uid |-> uid, id |-> 0, body |-> NoBody, submitted |-> NoRecord,
     phase |-> "sent", data |-> <<>>, orphan |-> FALSE, afterDelete |-> afterDelete]

SaveReq(contact, uid) ==
    [kind |-> IF contact.id # None THEN "update" ELSE "insert",
     uid |-> uid,
     id |-> IF contact.id # None THEN contact.id[1] ELSE 0,
     body |-> IF contact.id # None THEN UpdateBody(contact) ELSE InsertBody(contact, uid),
     submitted |-> contact,
     phase |-> "sent", data |-> <<>>, orphan |-> FALSE, afterDelete |-> 0]

DeleteReq(id, uid) ==
    [kind |-> "delete", uid |-> uid, id |-> id, body |-> NoBody, submitted |-> NoRecord,
     phase |-> "sent", data |-> <<>>, orphan |-> FALSE, afterDelete |-> 0]

\* ------------------------------------------------------------- the contacts table

\* Variant: the column is added without a default.
ColumnDefault_Null(col) == None

\* ADD COLUMN city TEXT DEFAULT 'Burgos': the default of a column an insert omits.
ColumnDefault(col) == IF col = "city" /\ migration > 0 THEN Some(Burgos) ELSE None

ColumnOr(body, col) == IF col \in DOMAIN body THEN Some(body[col]) ELSE ColumnDefault(col)

\* insert: id and created_at are assigned by the store.
InsertedRow(body) ==
    [id |-> nextId,
     user_id |-> body.user_id,
     name |-> body.name,
     email |-> ColumnOr(body, "email"),
     phone |-> ColumnOr(body, "phone"),
     address |-> ColumnOr(body, "address"),
     notes |-> ColumnOr(body, "notes"),
     city |-> ColumnOr(body, "city"),
     created_at |-> nextId]

\* update ... set <the columns sent>
UpdatedRow(row, body) ==
    [k \in DOMAIN row |->
        IF k \in DOMAIN body
        THEN (IF k \in {"name", "user_id"} THEN body[k] ELSE Some(body[k]))
        ELSE row[k]]

\* Variant: the update without its .eq("id", id) filter.
UpdateTarget_Any(row, id) == TRUE

\* .eq("id", id)
UpdateTarget(row, id) == row.id = id

RECURSIVE OrderDesc(_)
OrderDesc(S) ==
    IF S = {}
    THEN <<>>
    ELSE LET m == CHOOSE r \in S : \A q \in S : q.created_at <= r.created_at
         IN <<m>> \o OrderDesc(S \ {m})

\* select * where user_id = uid order by created_at desc
SelectRows(uid) == OrderDesc({r \in store : r.user_id = uid})

\* Rows the page created in earlier visits, before the migration: one of u1
\* (name "A", phone "x") and one of u2 (name "b").
SeedRow ==
    [id |-> 1, user_id |-> "u1", name |-> <<"A">>, email |-> None, phone |-> Some(<<"x">>),
     address |-> None, notes |-> None, city |-> None, created_at |-> 1]

OtherRow ==
    [id |-> 2, user_id |-> "u2", name |-> <<"b">>, email |-> None, phone |-> None,
     address |-> None, notes |-> None, city |-> None, created_at |-> 2]

\* ------------------------------------------------------------- initial state

ClientInit ==
    /\ session = NoSession
    /\ contacts = <<>>
    /\ loading = TRUE
    /\ searchTerm = <<>>
    /\ dialogOpen = FALSE
    /\ editingContact = None
    /\ form = EmptyForm
    /\ opener = "none"

Init ==
    /\ store \in {{}, {SeedRow, OtherRow}}
    /\ nextId = 3
    /\ migration = 0
    /\ ClientInit
    /\ toast = "none"
    /\ gone = {}
    /\ reqs = <<>>

\* ------------------------------------------------------------- session

\* Leaving the page (navigate("/auth")): its state is dropped, and what its
\* pending callbacks set afterwards is set on an unmounted component.  A
\* pending select has no further effect; a pending write still reaches the store.
Orphaned(r) ==
    IF r.kind = "done" THEN r
    ELSE IF r.kind = "select" THEN Done(TRUE)
    ELSE [r EXCEPT !.orphan = TRUE]

Unmount ==
    /\ session' = NoSession
    /\ contacts' = <<>>
    /\ loading' = TRUE
    /\ searchTerm' = <<>>
    /\ dialogOpen' = FALSE
    /\ editingContact' = None
    /\ form' = EmptyForm
    /\ opener' = "none"
    /\ reqs' = [i \in 1..Len(reqs) |-> Orphaned(reqs[i])]

\* loadContacts up to its await, called with the session user uid of the
\* closure: setLoading(true) takes the page body, the dialog included, off screen.
IssueLoad(rs, uid, afterDelete, cap) ==
    /\ Len(rs) < cap
    /\ loading' = TRUE
    /\ reqs' = Append(rs, SelectReq(uid, afterDelete))

\* onAuthStateChange / getSession().then: setSession, then the [session] effect.
AuthStateChange(s, cap) ==
    \/ /\ s = NoSession
       /\ session # NoSession
       /\ Unmount
       /\ UNCHANGED <<store, nextId, migration, toast, gone>>
    \/ /\ s \in Users
       /\ session' = s
       /\ IssueLoad(reqs, s, 0, cap)
       /\ form' = EmptyForm
       /\ UNCHANGED <<store, nextId, migration, contacts, searchTerm, dialogOpen,
                      editingContact, opener, toast, gone>>

\* handleSignOut: signOut() ends the session, which the listener observes.
SignOut ==
    /\ UIVisible
    /\ ~dialogOpen
    /\ Unmount
    /\ toast' = "Sesion cerrada"
    /\ UNCHANGED <<store, nextId, migration, gone>>

\* ------------------------------------------------------------- page controls

\* The search box's onChange.
SetSearchTerm(t) ==
    /\ UIVisible
    /\ ~dialogOpen
    /\ searchTerm' = t
    /\ UNCHANGED <<store, nextId, migration, session, contacts, loading, dialogOpen,
                   editingContact, form, opener, toast, gone, reqs>>

\* "Nuevo Contacto"
OpenCreate ==
    /\ UIVisible
    /\ ~dialogOpen
    /\ editingContact' = None
    /\ dialogOpen' = TRUE
    /\ form' = SeedForm(editingContact')
    /\ opener' = "create"
    /\ UNCHANGED <<store, nextId, migration, session, contacts, loading, searchTerm,
                   toast, gone, reqs>>

\* "Agregar tu primer contacto": shown when nothing is listed and the search box
\* is empty.
OpenFirst ==
    /\ UIVisible
    /\ ~dialogOpen
    /\ Len(filteredContacts) = 0
    /\ searchTerm = <<>>
    /\ dialogOpen' = TRUE
    /\ form' = SeedForm(editingContact)
    /\ opener' = "first"
    /\ UNCHANGED <<store, nextId, migration, session, contacts, loading, searchTerm,
                   editingContact, toast, gone, reqs>>

\* A card's edit button: handleEditContact(contact).
EditContact(k) ==
    /\ UIVisible
    /\ ~dialogOpen
    /\ k \in 1..Len(filteredContacts)
    /\ editingContact' = Some(filteredContacts[k])
    /\ dialogOpen' = TRUE
    /\ form' = SeedForm(editingContact')
    /\ opener' = "edit"
    /\ UNCHANGED <<store, nextId, migration, session, contacts, loading, searchTerm,
                   toast, gone, reqs>>

\* A card's delete button: handleDeleteContact(id) up to its await.
DeleteContact(k, cap) ==
    /\ UIVisible
    /\ ~dialogOpen
    /\ k \in 1..Len(filteredContacts)
    /\ Len(reqs) < cap
    /\ reqs' = Append(reqs, DeleteReq(filteredContacts[k].id, session))
    /\ UNCHANGED <<store, nextId, migration, session, contacts, loading, searchTerm,
                   dialogOpen, editingContact, form, opener, toast, gone>>

\* ------------------------------------------------------------- dialog controls

\* A text field's onChange.
SetField(f, v) ==
    /\ UIVisible
    /\ dialogOpen
    /\ form' = [form EXCEPT ![f] = v]
    /\ UNCHANGED <<store, nextId, migration, session, contacts, loading, searchTerm,
                   dialogOpen, editingContact, opener, toast, gone, reqs>>

\* "Cancelar": onOpenChange(false); the seeding effect runs as open changes.
Cancel ==
    /\ UIVisible
    /\ dialogOpen
    /\ dialogOpen' = FALSE
    /\ form' = SeedForm(editingContact)
    /\ opener' = "none"
    /\ UNCHANGED <<store, nextId, migration, session, contacts, loading, searchTerm,
                   editingContact, toast, gone, reqs>>

\* handleSubmit: onSave(record), which runs handleSaveContact up to its await,
\* then onOpenChange(false).  The name field is `required`.
Submit(cap) ==
    /\ UIVisible
    /\ dialogOpen
    /\ form.name # <<>>
    /\ Len(reqs) < cap
    /\ reqs' = Append(reqs, SaveReq(EmittedRecord(editingContact, form), session))
    /\ dialogOpen' = FALSE
    /\ form' = SeedForm(editingContact)
    /\ opener' = "none"
    /\ UNCHANGED <<store, nextId, migration, session, contacts, loading, searchTerm,
                   editingContact, toast, gone>>

\* ------------------------------------------------------------- the store serves

Sent(i) == i \in 1..Len(reqs) /\ reqs[i].kind # "done" /\ reqs[i].phase = "sent"

Answered(i) == i \in 1..Len(reqs) /\ reqs[i].kind # "done" /\ reqs[i].phase # "sent"

ServeSelect(i) ==
    /\ Sent(i)
    /\ reqs[i].kind = "select"
    /\ reqs' = [reqs EXCEPT ![i].phase = "ok", ![i].data = SelectRows(reqs[i].uid)]
    /\ UNCHANGED <<store, nextId, migration, session, contacts, loading, searchTerm,
                   dialogOpen, editingContact, form, opener, toast, gone>>

ServeInsert(i) ==
    /\ Sent(i)
    /\ reqs[i].kind = "insert"
    /\ store' = store \cup {InsertedRow(reqs[i].body)}
    /\ nextId' = nextId + 1
    /\ reqs' = [reqs EXCEPT ![i].phase = "ok"]
    /\ UNCHANGED <<migration, session, contacts, loading, searchTerm,
                   dialogOpen, editingContact, form, opener, toast, gone>>

ServeUpdate(i) ==
    /\ Sent(i)
    /\ reqs[i].kind = "update"
    /\ store' = {IF UpdateTarget(r, reqs[i].id) THEN UpdatedRow(r, reqs[i].body) ELSE r :
                    r \in store}
    /\ reqs' = [reqs EXCEPT ![i].phase = "ok"]
    /\ UNCHANGED <<nextId, migration, session, contacts, loading, searchTerm,
                   dialogOpen, editingContact, form, opener, toast, gone>>

ServeDelete(i) ==
    /\ Sent(i)
    /\ reqs[i].kind = "delete"
    /\ store' = {r \in store : r.id # reqs[i].id}
    /\ reqs' = [reqs EXCEPT ![i].phase = "ok"]
    /\ UNCHANGED <<nextId, migration, session, contacts, loading, searchTerm,
                   dialogOpen, editingContact, form, opener, toast, gone>>

\* The request fails (network, authorization): { error } comes back and the
\* table is as it was.
Reject(i) ==
    /\ Sent(i)
    /\ reqs' = [reqs EXCEPT ![i].phase = "error"]
    /\ UNCHANGED <<store, nextId, migration, session, contacts, loading, searchTerm,
                   dialogOpen, editingContact, form, opener, toast, gone>>

\* The city migration: ADD COLUMN ... DEFAULT gives every existing row the
\* default, and the UPDATE sets it where city is still null.
AfterAddColumn(rows) == {[r EXCEPT !.city = Some(Burgos)] : r \in rows}

AfterBackfill(rows) == {IF r.city = None THEN [r EXCEPT !.city = Some(Burgos)] ELSE r : r \in rows}

ApplyMigration ==
    /\ migration = 0
    /\ migration' = nextId
    /\ store' = AfterBackfill(AfterAddColumn(store))
    /\ UNCHANGED <<nextId, session, contacts, loading, searchTerm,
                   dialogOpen, editingContact, form, opener, toast, gone, reqs>>

\* ------------------------------------------------------------- the page resumes

\* loadContacts after its await.
LoadContactsDone(i) ==
    /\ Answered(i)
    /\ reqs[i].kind = "select"
    /\ IF reqs[i].phase = "error"
       THEN /\ toast' = "Error al cargar contactos"
            /\ UNCHANGED <<contacts, gone>>
       ELSE /\ contacts' = reqs[i].data
            /\ gone' = IF reqs[i].afterDelete # 0 THEN gone \cup {reqs[i].afterDelete} ELSE gone
            /\ UNCHANGED toast
    /\ loading' = FALSE
    /\ form' = IF loading THEN SeedForm(editingContact) ELSE form
    /\ reqs' = [reqs EXCEPT ![i] = Done(reqs[i].phase = "ok")]
    /\ UNCHANGED <<store, nextId, migration, session, searchTerm, dialogOpen,
                   editingContact, opener>>

SaveErrorToast(kind) ==
    IF kind = "update" THEN "Error al actualizar el contacto" ELSE "Error al crear el contacto"

SaveOkToast(kind) == IF kind = "update" THEN "Contacto actualizado" ELSE "Contacto creado"

\* setEditingContact(null) at the end of handleSaveContact: the dialog, when on
\* screen, reseeds its fields if editingContact changed.
ClearEditing ==
    /\ editingContact' = None
    /\ form' = IF loading' THEN EmptyForm
               ELSE IF editingContact # None THEN SeedForm(None) ELSE form

\* Variant: the error branch reloads the list as the success branch does.
SaveFailed_Reloads(i, cap) ==
    /\ toast' = SaveErrorToast(reqs[i].kind)
    /\ IssueLoad([reqs EXCEPT ![i] = Done(FALSE)], reqs[i].uid, 0, cap)

\* handleSaveContact after its await, the error branch.
SaveFailed(i, cap) ==
    /\ toast' = SaveErrorToast(reqs[i].kind)
    /\ reqs' = [reqs EXCEPT ![i] = Done(FALSE)]
    /\ UNCHANGED loading

\* handleSaveContact after its await, the success branch.
SaveSucceeded(i, cap) ==
    /\ toast' = SaveOkToast(reqs[i].kind)
    /\ IssueLoad([reqs EXCEPT ![i] = Done(TRUE)], reqs[i].uid, 0, cap)

\* handleSaveContact after its await.
SaveDone(i, cap) ==
    /\ Answered(i)
    /\ reqs[i].kind \in {"insert", "update"}
    /\ IF reqs[i].orphan
       THEN /\ toast' = IF reqs[i].phase = "error" THEN SaveErrorToast(reqs[i].kind)
                        ELSE SaveOkToast(reqs[i].kind)
            /\ reqs' = [reqs EXCEPT ![i] = Done(reqs[i].phase = "ok")]
            /\ UNCHANGED <<loading, editingContact, form>>
       ELSE /\ IF reqs[i].phase = "error" THEN SaveFailed(i, cap) ELSE SaveSucceeded(i, cap)
            /\ ClearEditing
    /\ UNCHANGED <<store, nextId, migration, session, contacts, searchTerm, dialogOpen,
                   opener, gone>>

\* handleDeleteContact after its await.
DeleteDone(i, cap) ==
    /\ Answered(i)
    /\ reqs[i].kind = "delete"
    /\ IF reqs[i].phase = "error"
       THEN /\ toast' = "Error al eliminar el contacto"
            /\ reqs' = [reqs EXCEPT ![i] = Done(FALSE)]
            /\ UNCHANGED <<loading, form>>
       ELSE /\ toast' = "Contacto eliminado"
            /\ IF reqs[i].orphan
               THEN /\ reqs' = [reqs EXCEPT ![i] = Done(TRUE)]
                    /\ UNCHANGED <<loading, form>>
               ELSE /\ IssueLoad([reqs EXCEPT ![i] = Done(TRUE)], reqs[i].uid, reqs[i].id, cap)
                    /\ form' = EmptyForm
    /\ UNCHANGED <<store, nextId, migration, session, contacts, searchTerm, dialogOpen,
                   editingContact, opener, gone>>

\* ------------------------------------------------------------- specification

\* The steps of the page with at most cap requests issued, the user typing into
\* the dialog fields named in typed, and sessions of the users in users.
PageSteps(cap, typed, users) ==
    \/ \E s \in users \cup {NoSession} : AuthStateChange(s, cap)
    \/ SignOut
    \/ \E t \in SearchTerms : SetSearchTerm(t)
    \/ OpenCreate
    \/ OpenFirst
    \/ \E k \in 1..Len(contacts) : EditContact(k)
    \/ \E k \in 1..Len(contacts) : DeleteContact(k, cap)
    \/ \E f \in typed : \E v \in TextsFor(f) : SetField(f, v)
    \/ Cancel
    \/ Submit(cap)
    \/ \E i \in 1..Len(reqs) : LoadContactsDone(i)
    \/ \E i \in 1..Len(reqs) : SaveDone(i, cap)
    \/ \E i \in 1..Len(reqs) : DeleteDone(i, cap)

\* The steps of the store.
StoreSteps ==
    \/ \E i \in 1..Len(reqs) : ServeSelect(i)
    \/ \E i \in 1..Len(reqs) : ServeInsert(i)
    \/ \E i \in 1..Len(reqs) : ServeUpdate(i)
    \/ \E i \in 1..Len(reqs) : ServeDelete(i)
    \/ \E i \in 1..Len(reqs) : Reject(i)

\* One user, who types only the name.
Next == PageSteps(MaxReqs, {"name"}, {"u1"}) \/ StoreSteps

Spec == Init /\ [][Next]_vars

\* Two users and more requests in flight; only the name is typed.
NextRace == PageSteps(MaxRaceReqs, {"name"}, Users) \/ StoreSteps

SpecRace == Init /\ [][NextRace]_vars

\* The page around the one-time migration.
NextMigration == PageSteps(MaxMigrationReqs, {"name"}, {"u1"}) \/ StoreSteps \/ ApplyMigration

SpecMigration == Init /\ [][NextMigration]_vars

\* One user, who types into every field of the dialog.
NextForm == PageSteps(MaxFormReqs, Columns, {"u1"}) \/ StoreSteps

SpecForm == Init /\ [][NextForm]_vars

\* ------------------------------------------------------------- the dialog alone

\* A second row of u1, as an insert with an email and notes leaves it.
MailRow ==
    [id |-> 3, user_id |-> "u1", name |-> <<"a">>, email |-> Some(<<"x">>), phone |-> None,
     address |-> None, notes |-> Some(<<"x">>), city |-> None, created_at |-> 3]

\* The page of u1 showing a loaded list, the dialog closed.
InitDialog ==
    /\ \E mine \in SUBSET {SeedRow, MailRow} :
          /\ store = mine \cup {OtherRow}
          /\ contacts = OrderDesc(mine)
    /\ nextId = 4
    /\ migration = 0
    /\ session = "u1"
    /\ loading = FALSE
    /\ searchTerm = <<>>
    /\ dialogOpen = FALSE
    /\ editingContact = None
    /\ form = EmptyForm
    /\ opener = "none"
    /\ toast = "none"
    /\ gone = {}
    /\ reqs = <<>>

\* The controls that open the dialog and the dialog's own; what it emits stays
\* in reqs.
NextDialog ==
    \/ OpenCreate
    \/ OpenFirst
    \/ \E k \in 1..Len(contacts) : EditContact(k)
    \/ \E f \in Columns : \E v \in TextsFor(f) : SetField(f, v)
    \/ Cancel
    \/ Submit(MaxDialogReqs)

SpecDialog == InitDialog /\ [][NextDialog]_vars

\* ------------------------------------------------------------- the filter alone

FilterChars == {"a", "A", "b", "x", "X", "6"}

RECURSIVE TextsUpTo(_)
TextsUpTo(n) ==
    IF n = 0
    THEN {<<>>}
    ELSE LET shorter == TextsUpTo(n - 1)
         IN shorter \cup {Append(t, c) : t \in shorter, c \in FilterChars}

FilterTerms == TextsUpTo(MaxTermLen)

FilterRow(id, name, email, phone) ==
    [id |-> id, user_id |-> "u1", name |-> name, email |-> email, phone |-> phone,
     address |-> None, notes |-> None, city |-> None, created_at |-> id]

FilterPool ==
    {FilterRow(1, <<"A", "x">>, None, None),
     FilterRow(2, <<"x">>, Some(<<"B", "a">>), None),
     FilterRow(3, <<"6">>, None, Some(<<"X", "6">>)),
     FilterRow(4, <<"b", "b">>, Some(<<"6", "a">>), Some(<<"a", "X">>))}

\* The page of u1 showing a loaded list, the dialog closed.
InitFilter ==
    /\ store \in SUBSET FilterPool
    /\ nextId = 5
    /\ migration = 0
    /\ session = "u1"
    /\ contacts = OrderDesc(store)
    /\ loading = FALSE
    /\ searchTerm = <<>>
    /\ dialogOpen = FALSE
    /\ editingContact = None
    /\ form = EmptyForm
    /\ opener = "none"
    /\ toast = "none"
    /\ gone = {}
    /\ reqs = <<>>

NextFilter == \E t \in FilterTerms : SetSearchTerm(t)

SpecFilter == InitFilter /\ [][NextFilter]_vars

\* ------------------------------------------------------------- properties

\* Steps, recognised by what they do to the request list.
ServedOk(i) ==
    /\ Sent(i)
    /\ reqs'[i].kind # "done"
    /\ reqs'[i].phase = "ok"

Rejected(i) ==
    /\ Sent(i)
    /\ reqs'[i].kind # "done"
    /\ reqs'[i].phase = "error"

Handled(i) ==
    /\ Answered(i)
    /\ reqs'[i].kind = "done"

IsSave(r) == r.kind \in {"insert", "update"}

SubmitStep ==
    /\ Len(reqs') = Len(reqs) + 1
    /\ IsSave(reqs'[Len(reqs')])

Ids(rows) == {r.id : r \in rows}

Displayed(id) == UIVisible /\ \E k \in 1..Len(contacts) : contacts[k].id = id

\* C1: when the store serves the insert of a record submitted without an id, it
\* gains exactly one row, owned by the submitting user, whose name, email, phone,
\* address and notes are the submitted values, absent ones unset.
C1_InsertStoresSubmitted ==
    [][\A i \in 1..Len(reqs) :
          (ServedOk(i) /\ reqs[i].kind = "insert") =>
              \E r \in store' :
                  /\ r \notin store
                  /\ store' = store \cup {r}
                  /\ r.user_id = reqs[i].uid
                  /\ r.name = reqs[i].submitted.name
                  /\ r.email = reqs[i].submitted.email
                  /\ r.phone = reqs[i].submitted.phone
                  /\ r.address = reqs[i].submitted.address
                  /\ r.notes = reqs[i].submitted.notes]_vars

\* C2: serving the update of a record with id X adds and removes no row, leaves
\* every row with another id as it was, and leaves id, user_id, created_at (and
\* city) of row X as they were.
C2_UpdateFrame ==
    [][\A i \in 1..Len(reqs) :
          (ServedOk(i) /\ reqs[i].kind = "update") =>
              /\ Ids(store') = Ids(store)
              /\ Cardinality(store') = Cardinality(store)
              /\ \A r \in store :
                    IF r.id # reqs[i].id
                    THEN r \in store'
                    ELSE \E q \in store' :
                            /\ q.id = r.id
                            /\ q.user_id = r.user_id
                            /\ q.created_at = r.created_at
                            /\ q.city = r.city]_vars

\* An update of row 1 was served and changed its name, beside another row.
C2_Witness ==
    \E i \in 1..Len(reqs) :
        /\ reqs[i].kind = "update"
        /\ reqs[i].phase = "ok"
        /\ reqs[i].id = 1
        /\ \E r \in store : r.id = 1 /\ r.name = <<"a">> /\ r.phone = Some(<<"x">>)
        /\ OtherRow \in store

\* C3: once the delete of id X succeeded and the reload it triggered completed,
\* X is in neither the store nor the displayed list, whatever happens later.
C3_DeletedStaysAbsent ==
    \A x \in gone : x \notin Ids(store) /\ ~Displayed(x)

\* C4: the displayed list holds only contacts of the session user.
C4_OwnerIsolation ==
    UIVisible => \A k \in 1..Len(contacts) : contacts[k].user_id = session

\* C5: the record the dialog emits has an id exactly when the dialog holds an
\* editing record (then that record's id), has the name as typed, and has each
\* optional field absent exactly when its text field is "" and equal to the text
\* otherwise; and opening the dialog on a record seeds "" for each absent field.
C5_EmittedRecord ==
    [][/\ SubmitStep =>
            LET rec == reqs'[Len(reqs')].submitted
            IN /\ (rec.id # None) <=> (editingContact # None)
               /\ editingContact # None => rec.id = Some(editingContact[1].id)
               /\ rec.name = form.name
               /\ \A f \in OptColumns :
                     /\ (rec[f] = None) <=> (form[f] = <<>>)
                     /\ form[f] # <<>> => rec[f] = Some(form[f])
       /\ (~dialogOpen /\ dialogOpen' /\ editingContact' # None) =>
            /\ form'.name = editingContact'[1].name
            /\ \A f \in OptColumns :
                  form'[f] = IF editingContact'[1][f] = None THEN <<>>
                             ELSE editingContact'[1][f][1]]_vars

\* Row 1, which has a phone and no address, was opened for edit and submitted
\* as seeded: the record carries the id, the name, the phone and no address.
C5_Witness ==
    \E i \in 1..Len(reqs) :
        /\ reqs[i].kind = "update"
        /\ reqs[i].submitted.id = Some(1)
        /\ reqs[i].submitted.name = <<"A">>
        /\ reqs[i].submitted.address = None
        /\ reqs[i].submitted.phone = Some(<<"x">>)
        /\ reqs[i].submitted.email = None
        /\ reqs[i].submitted.notes = None

\* C6: a rejected save leaves the store and the list as they were; handling the
\* rejection changes neither, issues no request, shows the error notification and
\* does not touch the dialog, which the submit closed before the outcome was
\* known and which handling a success does not touch either.
C6_RejectedSave ==
    [][/\ \A i \in 1..Len(reqs) :
             (Rejected(i) /\ IsSave(reqs[i])) => (store' = store /\ contacts' = contacts)
       /\ \A i \in 1..Len(reqs) :
             (Handled(i) /\ IsSave(reqs[i]) /\ reqs[i].phase = "error") =>
                 /\ store' = store
                 /\ contacts' = contacts
                 /\ loading' = loading
                 /\ Len(reqs') = Len(reqs)
                 /\ toast' \in {"Error al crear el contacto", "Error al actualizar el contacto"}
                 /\ dialogOpen' = dialogOpen
       /\ \A i \in 1..Len(reqs) :
             (Handled(i) /\ IsSave(reqs[i]) /\ reqs[i].phase = "ok") =>
                 dialogOpen' = dialogOpen
       /\ SubmitStep => ~dialogOpen']_vars

\* A rejected insert was handled on the page: the error is shown, the dialog is
\* closed and the list still shows row 1.
C6_Witness ==
    /\ toast = "Error al crear el contacto"
    /\ ~dialogOpen
    /\ Displayed(1)
    /\ \E i \in 1..Len(reqs) : reqs[i] = Done(FALSE)

\* Case-insensitive and exact containment, letter by letter.
CasePairs == {<<"a", "A">>, <<"b", "B">>, <<"x", "X">>}

SameLetter(c, d) == c = d \/ <<c, d>> \in CasePairs \/ <<d, c>> \in CasePairs

ContainsIgnoringCase(s, t) ==
    \E off \in 0..(Len(s) - Len(t)) : \A j \in 1..Len(t) : SameLetter(s[off + j], t[j])

ContainsExactly(s, t) ==
    \E off \in 0..(Len(s) - Len(t)) : \A j \in 1..Len(t) : s[off + j] = t[j]

ShouldShow(c, t) ==
    \/ ContainsIgnoringCase(c.name, t)
    \/ (c.email # None /\ ContainsIgnoringCase(c.email[1], t))
    \/ (c.phone # None /\ ContainsExactly(c.phone[1], t))

Kept == {k \in 1..Len(contacts) : ShouldShow(contacts[k], searchTerm)}

\* C7: the filtered list is the contacts, in their order in the list, whose name
\* contains the term ignoring case, or whose email is present and contains it
\* ignoring case, or whose phone is present and contains it exactly.
C7_FilterExact ==
    /\ Len(filteredContacts) = Cardinality(Kept)
    /\ \A j \in 1..Len(filteredContacts) :
          \E k \in Kept :
              /\ Cardinality({m \in Kept : m <= k}) = j
              /\ filteredContacts[j] = contacts[k]

\* The term "x" over the four contacts: "x" and "Ax" are shown, in the list's
\* order, the second by its name alone (it has no email and no phone); the two
\* contacts whose phones hold the term only in the other case are not shown.
C7_Witness ==
    /\ searchTerm = <<"x">>
    /\ Len(contacts) = 4
    /\ Len(filteredContacts) = 2
    /\ filteredContacts[1].id = 2
    /\ filteredContacts[2].id = 1
    /\ filteredContacts[2].email = None
    /\ filteredContacts[2].phone = None

CreatedAfterMigration(r) == migration > 0 /\ r.created_at >= migration

CreatedBeforeMigration(r) == migration > 0 /\ r.created_at < migration

\* C8 as stated: after the migration, a contact created since has no city and a
\* contact that existed before has the migration's default.
C8_NewContactsLackCity ==
    \A r \in store :
        /\ CreatedAfterMigration(r) => r.city = None
        /\ CreatedBeforeMigration(r) => r.city = Some(<<"B", "u">>)

\* C8: after the migration, a contact created since has the migration's default
\* as its city, and so has every contact that existed before.
C8_CityDefaulted ==
    \A r \in store :
        /\ CreatedAfterMigration(r) => r.city = Some(<<"B", "u">>)
        /\ CreatedBeforeMigration(r) => r.city = Some(<<"B", "u">>)

\* The store holds a contact created before the migration and one created by a
\* save served after it.
C8_Witness ==
    /\ \E r \in store : CreatedAfterMigration(r)
    /\ \E r \in store : CreatedBeforeMigration(r)

\* C9: a dialog opened by "Nuevo Contacto" or by "Agregar tu primer contacto"
\* opens with no editing record and every field cleared.
C9_CreateOpensEmpty ==
    [][(~dialogOpen /\ dialogOpen' /\ opener' \in {"create", "first"}) =>
          (editingContact' = None /\ form' = EmptyForm)]_vars

\* C10: once every request issued has completed without error, the list of the
\* page equals the store's contacts of the session user, newest first.
C10_SettledListMatchesStore ==
    (/\ session # NoSession
     /\ Len(reqs) > 0
     /\ \A i \in 1..Len(reqs) : reqs[i] = Done(TRUE))
        => contacts = SelectRows(session)

====
